---------------------------- MODULE Spec2Model ----------------------------
(* Model of the teaching notebooks of ml4crystals_erice2024:               *)
(*   - the gas-permeability notebook   (fingerprint loop, split, predict)   *)
(*   - the space-group CNN notebook    (encoding, split, callbacks, fit)    *)
(*   - the melting-point notebook      (K-means on the training set)        *)
(*   - every notebook, cell by cell    (names bound, files written)         *)
(* Each notebook is a separate specification over the same variables; the   *)
(* variables of the notebooks a specification does not run stay idle.       *)
EXTENDS Integers, Sequences, FiniteSets, TLC

VARIABLES
  \* ---- gas-permeability notebook (kernel namespace and cell output)
  ML_data,      \* the dataframe: sequence of rows [smiles, perm]
  gpc,          \* position in the notebook
  gi,           \* loop variable i of the stacking loop
  fp,           \* the stacked fingerprint array (sequence of rows)
  fp_temp,      \* last fingerprint computed in the loop, or Unbound
  stdout,       \* lines printed by the fingerprint cell
  exc,          \* exception that ended a cell, or "none"
  perms,        \* ML_data['O2'].values
  X_train, X_test, y_train, y_test,
  y_pred

gasVars == <<ML_data, gpc, gi, fp, fp_temp, stdout, exc, perms,
             X_train, X_test, y_train, y_test, y_pred>>

VARIABLES
  \* ---- space-group CNN notebook: data preparation and model definition
  solved,          \* the "YOUR SOLUTION" cells are filled in as instructed
  cpc,             \* position in the notebook
  cexc,            \* last exception of a cell, or "none"
  n_samples,       \* rows of X (0 while X is undefined)
  shuffle,         \* the shuffle drawn by train_test_split
  n_train, n_test, \* rows of X_train / X_test
  y_train_sg,      \* leading space-group labels of y_train
  y_train_one_hot, \* their one-hot encoding
  layers           \* layers of `model`, in the order they were added

cnnVars == <<solved, cpc, cexc, n_samples, shuffle, n_train, n_test,
             y_train_sg, y_train_one_hot, layers>>

VARIABLES
  \* ---- space-group CNN notebook: model.fit with the two callbacks
  lr_solved,      \* lr_schedule has been completed as instructed
  logs_val_acc,   \* the compiled metrics log their value under 'val_acc'
  fpc,            \* position inside fit
  epoch,          \* index of the current epoch
  wait,           \* EarlyStopping.wait
  best,           \* EarlyStopping.best
  stop_training,  \* model.stop_training
  lr_hist,        \* the learning rate set at the start of every epoch begun
  hist_best,      \* history.history['val_acc']: its running maximum
  hist_stale      \*   and the length of its trailing run without a new maximum

fitVars == <<lr_solved, logs_val_acc, fpc, epoch, wait, best, stop_training,
             lr_hist, hist_best, hist_stale>>

VARIABLES
  \* ---- melting-point notebook, run twice side by side
  runs,           \* runs[r]: the namespace of run r
  mpc,            \* position in the notebook (the same in both runs)
  changed         \* the name in which run 2 was made to differ from run 1

meltVars == <<runs, mpc, changed>>

VARIABLES
  \* ---- any notebook, run cell by cell: which names and files exist
  nb,             \* the notebook that is open
  run_all,        \* "Run All" (stops at the first error) or one cell after another
  data_files,     \* the data files the notebook reads are in the working directory
  next_cell,      \* index of the next code cell
  namespace,      \* names bound in the kernel
  files,          \* files written to the working directory
  error           \* exception raised by the cell run last, or "none"

cellVars == <<nb, run_all, data_files, next_cell, namespace, files, error>>

VARIABLES
  \* ---- gas-permeability notebook: the cells that clean the dataframes
  data,           \* the dataframe read from Perm_Data.xlsx
  gas_data,       \* gas_data[g]: the dataframe He_data, H2_data, ... of gas g
  clpc            \* position in the notebook

cleanVars == <<data, gas_data, clpc>>

VARIABLES
  \* ---- space-group CNN notebook: class weights
  w_solved,       \* the weights cell is filled in as instructed
  sizes,          \* sizes[k+1]: data points of class k (size_sg.csv)
  weights,        \* the dictionary `weights`
  wpc             \* position in the notebook

weightVars == <<w_solved, sizes, weights, wpc>>

VARIABLES
  \* ---- the documented setup: a reader following README.md and the
  \*      virtual-environment notebook on their machine
  plan,           \* the documents followed: "README", "notebook" or "README+notebook"
  strict,         \* the reader stops at a step whose requirement cannot be met
  doc,            \* the document being followed
  step,           \* index of the next step of doc
  envs,           \* conda environments that exist
  active,         \* environment activated in the terminal, or "none"
  installed,      \* installed[e]: packages installed in environment e
  base_installs,  \* base_installs[d]: packages the steps of document d put in base
  unmet,          \* steps reached while the environment they require did not exist
  halted          \* the reader has stopped

setupVars == <<plan, strict, doc, step, envs, active, installed, base_installs,
               unmet, halted>>

vars == <<gasVars, cnnVars, fitVars, meltVars, cellVars, cleanVars, weightVars, setupVars>>

\* each notebook runs in a kernel of its own
GasOnly    == UNCHANGED <<cnnVars, fitVars, meltVars, cellVars, cleanVars, weightVars, setupVars>>
CnnOnly    == UNCHANGED <<gasVars, fitVars, meltVars, cellVars, cleanVars, weightVars, setupVars>>
FitOnly    == UNCHANGED <<gasVars, cnnVars, meltVars, cellVars, cleanVars, weightVars, setupVars>>
MeltOnly   == UNCHANGED <<gasVars, cnnVars, fitVars, cellVars, cleanVars, weightVars, setupVars>>
CellOnly   == UNCHANGED <<gasVars, cnnVars, fitVars, meltVars, cleanVars, weightVars, setupVars>>
CleanOnly  == UNCHANGED <<gasVars, cnnVars, fitVars, meltVars, cellVars, weightVars, setupVars>>
WeightOnly == UNCHANGED <<gasVars, cnnVars, fitVars, meltVars, cellVars, cleanVars, setupVars>>
SetupOnly  == UNCHANGED <<gasVars, cnnVars, fitVars, meltVars, cellVars, cleanVars, weightVars>>


\* ------------------------------------------------------------------------
\* Bounds of the model
MaxN      == 3     \* rows of the dataframe
MaxSmiles == 2     \* distinct parsable SMILES strings
MaxShift  == 2     \* shuffles of the 50550 PDFs: rotations by 0..MaxShift
MaxLabels == 2     \* leading labels of y_train that are followed
MaxRows   == 2     \* rows of Perm_Data.xlsx
MaxCount  == 2     \* data points of one class: 1..MaxCount
MaxTest   == 1     \* rows of X_test in the melting-point notebook
MaxFeat   == 1     \* features and targets of the melting-point data are 0..MaxFeat
AccScale  == 20    \* validation accuracy takes the values 0/AccScale .. AccScale/AccScale

\* ------------------------------------------------------------------------
\* IEEE-754 double arithmetic of  train_size * n_samples  /  test_size * n_samples
\* (sklearn computes floor(train_size * n) and ceil(test_size * n) on doubles).
\* Naturals wider than 31 bits are kept as little-endian limbs of 15 bits.
LimbBase == 2^15
LimbBits == 5 * 3

\* The 53-bit significand shared by the literals 0.8 (= Sig / 2^52) and
\* 0.2 (= Sig / 2^54): 3602879701896397.
DoubleSig == <<19661, 6553, 13107, 102>>

RECURSIVE MulLimbs(_, _, _)
MulLimbs(limbs, n, carry) ==
  IF limbs = <<>>
    THEN IF carry = 0 THEN <<>> ELSE <<carry % LimbBase>> \o MulLimbs(<<>>, n, carry \div LimbBase)
    ELSE LET t == Head(limbs) * n + carry
         IN  <<t % LimbBase>> \o MulLimbs(Tail(limbs), n, t \div LimbBase)

RECURSIVE LimbToBits(_, _)
LimbToBits(x, k) ==
  IF k = 0 THEN <<>> ELSE <<x % 2>> \o LimbToBits(x \div 2, k - 1)

RECURSIVE LimbsToBits(_)
LimbsToBits(limbs) ==
  IF limbs = <<>> THEN <<>>
  ELSE LimbToBits(Head(limbs), LimbBits) \o LimbsToBits(Tail(limbs))

BitLen(bits) ==
  IF \E j \in 1..Len(bits) : bits[j] = 1
    THEN CHOOSE j \in 1..Len(bits) : bits[j] = 1 /\ \A k \in (j+1)..Len(bits) : bits[k] = 0
    ELSE 0

RECURSIVE BitsValue(_, _)
\* value of bits[from..Len(bits)], bits little-endian
BitsValue(bits, from) ==
  IF from > Len(bits) THEN 0 ELSE bits[from] + 2 * BitsValue(bits, from + 1)

\* fl( (DoubleSig / 2^E) * n ): the product rounded to 53 significant bits,
\* round-half-to-even, as [int |-> integer part, exact |-> fraction is zero].
DoubleTimesInt(E, n) ==
  LET bits == LimbsToBits(MulLimbs(DoubleSig, n, 0))
      L    == BitLen(bits)
      s    == IF L > 53 THEN L - 53 ELSE 0
      up   == /\ s > 0
              /\ bits[s] = 1
              /\ \/ \E j \in 1..(s-1) : bits[j] = 1
                 \/ bits[s+1] = 1
      hi   == BitsValue(bits, E + 1)
      ones == \A j \in (s+1)..E : j <= Len(bits) /\ bits[j] = 1
      zero == \A j \in (s+1)..E : j > Len(bits) \/ bits[j] = 0
  IN  IF up
        THEN IF ones THEN [int |-> hi + 1, exact |-> TRUE]
                     ELSE [int |-> hi, exact |-> FALSE]
        ELSE [int |-> hi, exact |-> zero]

FloatFloor(E, n) == DoubleTimesInt(E, n).int
FloatCeil(E, n)  == LET p == DoubleTimesInt(E, n)
                    IN  IF p.exact THEN p.int ELSE p.int + 1


\* ------------------------------------------------------------------------
\* Permutations of 1..n (the shuffles train_test_split may draw)
Perms(n) == {p \in [1..n -> 1..n] : \A a, b \in 1..n : a # b => p[a] # p[b]}

\* train_test_split(arrays..., train_size=0.8): the shuffled index sets.
\* n_train = floor(train_size * n), n_test = n - n_train; the first n_test
\* indices of the permutation are the test set, the next n_train the train set.
NTrainOf(n) == FloatFloor(52, n)
SplitTest(p, n)  == [k \in 1..(n - NTrainOf(n)) |-> p[k]]
SplitTrain(p, n) == [k \in 1..NTrainOf(n) |-> p[(n - NTrainOf(n)) + k]]
Take(arr, idx)   == [k \in 1..Len(idx) |-> arr[idx[k]]]

\* ------------------------------------------------------------------------
\* Gas-permeability notebook
\* SMILES strings are 0..MaxSmiles; 0 stands for a string RDKit cannot parse.
Smiles     == 0..MaxSmiles
PermValues == {1, 10}
Rows       == [smiles : Smiles, perm : PermValues]
fpSize     == 2048

None == 0
\* Chem.MolFromSmiles returns None (no exception) for an unparsable string
MolFromSmiles(s) == IF s = 0 THEN None ELSE s

\* Chem.RDKFingerprint: a hashed bit vector of fpSize bits, kept as the set of
\* its on-bits (the hash itself is RDKit's; any fixed map of molecules to bit sets)
RDKFingerprint(mol) == {(mol * 37) % fpSize, (mol * mol + 11) % fpSize}

\* calculate_fingerprint(mol): [raised, bits]; RDKFingerprint rejects None
calculate_fingerprint(mol) ==
  IF mol = None THEN [raised |-> TRUE, bits |-> {}]
                ELSE [raised |-> FALSE, bits |-> RDKFingerprint(mol)]

\* a name of the namespace: unbound, or bound to a fingerprint
Unbound    == [bound |-> FALSE, bits |-> {}]
Bound(b)   == [bound |-> TRUE, bits |-> b]

\* lines of cell output
ErrorLine    == [text |-> "Error getting fingerprint", i |-> 0]
IndexLine(i) == [text |-> "index", i |-> i]

RECURSIVE Log10(_)
Log10(x) == IF x < 10 THEN 0 ELSE 1 + Log10(x \div 10)

GasInit ==
  /\ ML_data \in UNION {[1..n -> Rows] : n \in 1..MaxN}
  /\ gpc = "fingerprints"
  /\ gi = 0
  /\ fp = <<>>
  /\ fp_temp = Unbound
  /\ stdout = <<>>
  /\ exc = "none"
  /\ perms = <<>>
  /\ X_train = <<>> /\ X_test = <<>> /\ y_train = <<>> /\ y_test = <<>>
  /\ y_pred = <<>>

\* Position after the body of iteration i (or after the first row when i = 0)
AfterRow(i) == IF i + 1 < Len(ML_data) THEN "loop" ELSE "stacked"

\* mol_init = Chem.MolFromSmiles(ML_data.iloc[0,1]); fp = calculate_fingerprint(mol_init)
FpFirst ==
  /\ gpc = "fingerprints"
  /\ LET f == calculate_fingerprint(MolFromSmiles(ML_data[1].smiles))
     IN  IF f.raised
           THEN /\ exc' = "ArgumentError"
                /\ gpc' = "raised"
                /\ UNCHANGED <<fp, gi>>
           ELSE /\ fp' = <<f.bits>>
                /\ gi' = 1
                /\ gpc' = AfterRow(0)
                /\ exc' = "none"
  /\ UNCHANGED <<ML_data, fp_temp, stdout, perms, X_train, X_test, y_train, y_test, y_pred>>
  /\ GasOnly

\* The loop body without its try/except: the failure propagates
FpLoopNoTry ==
  /\ gpc = "loop"
  /\ LET f == calculate_fingerprint(MolFromSmiles(ML_data[gi + 1].smiles))
     IN  IF f.raised
           THEN /\ exc' = "ArgumentError"
                /\ gpc' = "raised"
                /\ UNCHANGED <<fp, fp_temp, gi, stdout>>
           ELSE /\ fp_temp' = Bound(f.bits)
                /\ fp' = Append(fp, f.bits)
                /\ stdout' = Append(stdout, IndexLine(gi))
                /\ gi' = gi + 1
                /\ gpc' = AfterRow(gi)
                /\ exc' = "none"
  /\ UNCHANGED <<ML_data, perms, X_train, X_test, y_train, y_test, y_pred>>
  /\ GasOnly

\* The loop body with `continue` in the except block: a failed row is skipped
FpLoopSkipRow ==
  /\ gpc = "loop"
  /\ LET f == calculate_fingerprint(MolFromSmiles(ML_data[gi + 1].smiles))
     IN  IF f.raised
           THEN /\ stdout' = Append(stdout, ErrorLine)
                /\ UNCHANGED <<fp, fp_temp>>
           ELSE /\ fp_temp' = Bound(f.bits)
                /\ fp' = Append(fp, f.bits)
                /\ stdout' = Append(stdout, IndexLine(gi))
  /\ gi' = gi + 1
  /\ gpc' = AfterRow(gi)
  /\ exc' = "none"
  /\ UNCHANGED <<ML_data, perms, X_train, X_test, y_train, y_test, y_pred>>
  /\ GasOnly

\* One iteration of  for i in range(1, len(ML_data)):
\*   try: mol_temp = ...; fp_temp = calculate_fingerprint(mol_temp)
\*   except: print("Error getting fingerprint")
\*   fp = np.vstack([fp, fp_temp]); print(i)
FpLoop ==
  /\ gpc = "loop"
  /\ LET f    == calculate_fingerprint(MolFromSmiles(ML_data[gi + 1].smiles))
         tmp  == IF f.raised THEN fp_temp ELSE Bound(f.bits)
         out  == IF f.raised THEN Append(stdout, ErrorLine) ELSE stdout
     IN  /\ fp_temp' = tmp
         /\ IF ~tmp.bound
              THEN \* np.vstack([fp, fp_temp]) with fp_temp never assigned
                   /\ exc' = "NameError"
                   /\ gpc' = "raised"
                   /\ stdout' = out
                   /\ UNCHANGED <<fp, gi>>
              ELSE /\ fp' = Append(fp, tmp.bits)
                   /\ stdout' = Append(out, IndexLine(gi))
                   /\ gi' = gi + 1
                   /\ gpc' = AfterRow(gi)
                   /\ exc' = "none"
  /\ UNCHANGED <<ML_data, perms, X_train, X_test, y_train, y_test, y_pred>>
  /\ GasOnly

\* perms = ML_data['O2'].values
GetPerms ==
  /\ gpc = "stacked"
  /\ perms' = [k \in 1..Len(ML_data) |-> ML_data[k].perm]
  /\ gpc' = "perms"
  /\ UNCHANGED <<ML_data, gi, fp, fp_temp, stdout, exc, X_train, X_test, y_train, y_test, y_pred>>
  /\ GasOnly

\* X_train, X_test, y_train, y_test =
\*     train_test_split(fp, np.log10(perms), train_size=0.8, random_state=0)
GasSplit ==
  /\ gpc = "perms"
  /\ LET n == Len(fp)
         y == [k \in 1..Len(perms) |-> Log10(perms[k])]
     IN  IF Len(perms) # n \/ NTrainOf(n) = 0
           THEN \* inconsistent numbers of samples, or an empty train set
                /\ exc' = "ValueError"
                /\ gpc' = "raised"
                /\ UNCHANGED <<X_train, X_test, y_train, y_test>>
           ELSE /\ \E p \in Perms(n) :
                     /\ X_train' = Take(fp, SplitTrain(p, n))
                     /\ X_test'  = Take(fp, SplitTest(p, n))
                     /\ y_train' = Take(y, SplitTrain(p, n))
                     /\ y_test'  = Take(y, SplitTest(p, n))
                /\ gpc' = "split"
                /\ exc' = "none"
  /\ UNCHANGED <<ML_data, gi, fp, fp_temp, stdout, perms, y_pred>>
  /\ GasOnly

\* linreg = LinearRegression(); linreg.fit(X_train, y_train)
GasFit ==
  /\ gpc = "split"
  /\ gpc' = "fitted"
  /\ UNCHANGED <<ML_data, gi, fp, fp_temp, stdout, exc, perms, X_train, X_test, y_train, y_test, y_pred>>
  /\ GasOnly

\* linreg.predict(x): one value per row of x. The regression itself is
\* scikit-learn's; here a fitted model answers with the target of the first
\* training row that has the same fingerprint, else 0.
Predict(x) ==
  IF \E k \in 1..Len(X_train) : X_train[k] = x
    THEN y_train[CHOOSE k \in 1..Len(X_train) :
                   X_train[k] = x /\ \A j \in 1..(k-1) : X_train[j] # x]
    ELSE 0

\* y_pred = linreg.predict(X_test)
GasPredict ==
  /\ gpc = "fitted"
  /\ y_pred' = [k \in 1..Len(X_test) |-> Predict(X_test[k])]
  /\ gpc' = "predicted"
  /\ UNCHANGED <<ML_data, gi, fp, fp_temp, stdout, exc, perms, X_train, X_test, y_train, y_test>>
  /\ GasOnly

GasNext == FpFirst \/ FpLoop \/ GetPerms \/ GasSplit \/ GasFit \/ GasPredict

\* ------------------------------------------------------------------------
\* Space-group CNN notebook: data preparation and model definition
NumPDFs      == 50550
\* the list with 14 and 15 exchanged
SG_ORDER_CNN_swapped == <<2, 15, 14, 62, 139, 194, 225, 227>>
SG_ORDER_CNN == <<2, 14, 15, 62, 139, 194, 225, 227>>
num_classes  == 8
InputSteps    == 209
InputChannels == 1
input_shape  == <<InputSteps, InputChannels>>

\* train_test_split(X, y, test_size=0.2, shuffle=True, stratify=y):
\* n_test = ceil(test_size * n), n_train = n - n_test
\* the split with the two fractions exchanged (test_size taken as 0.8)
NTestOfSwapped(n) == FloatCeil(52, n)
NTestOf(n) == FloatCeil(54, n)

\* the shuffled order of the samples 0..n-1: here the rotation by `shift`;
\* the first n_test samples of it are the test set, the others the train set
ShuffledAt(k, shift, n) == (k + shift) % n
TestIdx  == {ShuffledAt(k, shuffle, n_samples) : k \in 0..(n_test - 1)}
TrainIdx == {ShuffledAt(k, shuffle, n_samples) : k \in n_test..(n_test + n_train - 1)}

\* step 1 of the encoding: the index of a space group in SG_ORDER_CNN
IndexOfSG(g) ==
  CHOOSE i \in 0..(Len(SG_ORDER_CNN) - 1) :
    /\ SG_ORDER_CNN[i + 1] = g
    /\ \A j \in 0..(i - 1) : SG_ORDER_CNN[j + 1] # g

\* step 2: tf.one_hot(index, depth): 1 at `index`, 0 elsewhere
one_hot(index, depth) == [k \in 1..depth |-> IF k = index + 1 THEN 1 ELSE 0]

OneHotOfSG(g) == one_hot(IndexOfSG(g), num_classes)
IndexSeq(y)   == [k \in 1..Len(y) |-> IndexOfSG(y[k])]
EncodeLabels(y) == [k \in 1..Len(y) |-> OneHotOfSG(y[k])]

SGValues == {SG_ORDER_CNN[k] : k \in 1..Len(SG_ORDER_CNN)}
LabelSeqs == UNION {[1..n -> SGValues] : n \in 1..MaxLabels}

\* Keras layers as records
Layer(type, units, kernel, padding, activation, rate) ==
  [type |-> type, units |-> units, kernel |-> kernel, padding |-> padding,
   activation |-> activation, rate |-> rate]
InputLayer     == Layer("Input", 0, 0, "-", "-", 0)
BatchNorm      == Layer("BatchNormalization", 0, 0, "-", "-", 0)
Conv1D(f, k)   == Layer("Conv1D", f, k, "same", "relu", 0)
MaxPooling1D   == Layer("MaxPooling1D", 0, 0, "valid", "-", 0)
Dropout(pct)   == Layer("Dropout", 0, 0, "-", "-", pct)
Flatten        == Layer("Flatten", 0, 0, "-", "-", 0)
Dense(u, act)  == Layer("Dense", u, 0, "-", act, 0)

\* CNN_classifier() as it stands in the notebook: the two given layers
CNN_classifier == <<InputLayer, BatchNorm>>

\* the layers 3..13 the instructions ask the student to add
RestOfLayers ==
  << Conv1D(256, 32), BatchNorm, Conv1D(64, 32), BatchNorm, MaxPooling1D,
     Dropout(50), Flatten, Dense(128, "relu"), BatchNorm, Dropout(50),
     Dense(num_classes, "softmax") >>

CNN_classifier_completed == CNN_classifier \o RestOfLayers

\* shape of the output of one layer applied to an input of shape sh
\* (without the batch axis): <<steps, channels>> or <<features>>
LayerOut(l, sh) ==
  CASE l.type = "Input"        -> input_shape
    [] l.type = "Conv1D"       ->
         IF l.padding = "same" THEN <<sh[1], l.units>>
                               ELSE <<sh[1] - l.kernel + 1, l.units>>
    [] l.type = "MaxPooling1D" -> <<sh[1] \div 2, sh[2]>>
    [] l.type = "Flatten"      -> <<sh[1] * sh[2]>>
    [] l.type = "Dense"        -> SubSeq(sh, 1, Len(sh) - 1) \o <<l.units>>
    [] OTHER                   -> sh

RECURSIVE OutShape(_, _)
OutShape(ls, sh) ==
  IF ls = <<>> THEN sh ELSE OutShape(Tail(ls), LayerOut(Head(ls), sh))

CnnInit ==
  /\ solved \in BOOLEAN
  /\ cpc = "load"
  /\ cexc = "none"
  /\ n_samples = 0
  /\ shuffle = 0
  /\ n_train = 0 /\ n_test = 0
  /\ y_train_sg = <<>>
  /\ y_train_one_hot = <<>>
  /\ layers = <<>>

\* X = ... ; y = ...   (as shipped the cell is  "X = " : a SyntaxError)
CnnLoad ==
  /\ cpc = "load"
  /\ IF solved THEN n_samples' = NumPDFs /\ cexc' = "none"
               ELSE n_samples' = 0 /\ cexc' = "SyntaxError"
  /\ cpc' = "split"
  /\ UNCHANGED <<solved, shuffle, n_train, n_test, y_train_sg, y_train_one_hot, layers>>
  /\ CnnOnly

\* the train_test_split cell (empty as shipped) and the cell printing the shapes
CnnSplit ==
  /\ cpc = "split"
  /\ IF solved
       THEN /\ \E sh \in 0..MaxShift : shuffle' = sh
            /\ n_test' = NTestOf(n_samples)
            /\ n_train' = n_samples - NTestOf(n_samples)
            /\ cexc' = "none"
       ELSE /\ cexc' = "NameError"
            /\ UNCHANGED <<shuffle, n_train, n_test>>
  /\ cpc' = "encode"
  /\ UNCHANGED <<solved, n_samples, y_train_sg, y_train_one_hot, layers>>
  /\ CnnOnly

\* y_train_one_hot = ...   (as shipped  "y_train_one_hot =" : a SyntaxError)
CnnEncode ==
  /\ cpc = "encode"
  /\ IF solved
       THEN \E y \in LabelSeqs :
              /\ y_train_sg' = y
              /\ y_train_one_hot' = EncodeLabels(y)
              /\ cexc' = "none"
       ELSE /\ cexc' = "SyntaxError"
            /\ UNCHANGED <<y_train_sg, y_train_one_hot>>
  /\ cpc' = "build"
  /\ UNCHANGED <<solved, n_samples, shuffle, n_train, n_test, layers>>
  /\ CnnOnly

\* model = CNN_classifier()
CnnBuild ==
  /\ cpc = "build"
  /\ layers' = IF solved THEN CNN_classifier_completed ELSE CNN_classifier
  /\ cexc' = "none"
  /\ cpc' = "built"
  /\ UNCHANGED <<solved, n_samples, shuffle, n_train, n_test, y_train_sg, y_train_one_hot>>
  /\ CnnOnly

CnnNext == CnnLoad \/ CnnSplit \/ CnnEncode \/ CnnBuild

\* ------------------------------------------------------------------------
\* Space-group CNN notebook: model.fit(..., epochs=epochs, callbacks=callbacks)
epochs   == 100
patience == 10
\* min_delta = 0.5 = MinDeltaNum / MinDeltaDen
MinDeltaNum == 1
MinDeltaDen == 2

\* validation accuracies are v / AccScale for v in 0..AccScale
AccValues == 0..AccScale
\* EarlyStopping.best before the first epoch (-inf for a monitor that is maximised)
NegInf == 0 - 1

\* learning rates in units of 1e-6
LrHigh == 500
LrMid  == 50
LrLow  == 5

\* the rates the instructions give for an epoch:
\*   epoch 0-40: 5e-4,  epoch 40-60: 5e-5,  epoch >60: 5e-6
LrChoices(e) ==
  (IF 0 <= e /\ e <= 40 THEN {LrHigh} ELSE {}) \cup
  (IF 40 <= e /\ e <= 60 THEN {LrMid} ELSE {}) \cup
  (IF e > 60 THEN {LrLow} ELSE {})

\* lr_schedule(epoch) as it stands in the notebook: no statement assigns lr,
\* so  print('Learning rate: ', lr)  raises NameError: the set of returned
\* rates is empty
lr_schedule(e) == {}

\* lr_schedule(epoch) once "# Your code" follows the instructions
lr_schedule_completed(e) == LrChoices(e)

\* EarlyStopping._is_improvement: np.greater(current - min_delta, best)
IsImprovement(current, b) ==
  \/ b = NegInf
  \/ MinDeltaDen * current - MinDeltaNum * AccScale > MinDeltaDen * b

FitIdle ==
  /\ lr_solved = FALSE /\ logs_val_acc = FALSE
  /\ fpc = "idle"
  /\ epoch = 0 /\ wait = 0 /\ best = NegInf /\ stop_training = FALSE
  /\ lr_hist = <<>> /\ hist_best = NegInf /\ hist_stale = 0

\* the notebook at the fit cell: data, model and compile step are in place
FitInit ==
  /\ lr_solved \in BOOLEAN
  /\ logs_val_acc \in BOOLEAN
  /\ fpc = "begin"
  /\ epoch = 0 /\ wait = 0 /\ best = NegInf /\ stop_training = FALSE
  /\ lr_hist = <<>> /\ hist_best = NegInf /\ hist_stale = 0

\* callbacks.on_train_begin: EarlyStopping resets wait and best
FitBegin ==
  /\ fpc = "begin"
  /\ wait' = 0
  /\ best' = NegInf
  /\ stop_training' = FALSE
  /\ epoch' = 0
  /\ fpc' = "epoch_begin"
  /\ UNCHANGED <<lr_solved, logs_val_acc, lr_hist, hist_best, hist_stale>>
  /\ FitOnly

\* LearningRateScheduler.on_epoch_begin: lr = schedule(epoch)
EpochBegin ==
  /\ fpc = "epoch_begin"
  /\ LET rates == IF lr_solved THEN lr_schedule_completed(epoch) ELSE lr_schedule(epoch)
     IN  IF rates = {}
           THEN /\ fpc' = "raised"
                /\ UNCHANGED lr_hist
           ELSE /\ \E r \in rates : lr_hist' = Append(lr_hist, r)
                /\ fpc' = "training"
  /\ UNCHANGED <<lr_solved, logs_val_acc, epoch, wait, best, stop_training, hist_best, hist_stale>>
  /\ FitOnly

\* the epoch is trained and validated with accuracy v / AccScale, history
\* records it, and EarlyStopping.on_epoch_end(epoch, logs) runs
EpochEnd(v) ==
  /\ fpc = "training"
  /\ hist_best'  = IF v > hist_best THEN v ELSE hist_best
  /\ hist_stale' = IF v > hist_best THEN 0
                   ELSE IF hist_stale < patience THEN hist_stale + 1 ELSE patience
  /\ IF ~logs_val_acc
       THEN \* logs.get('val_acc') is None: a warning, nothing else
            UNCHANGED <<wait, best, stop_training>>
       ELSE IF IsImprovement(v, best)
              THEN /\ best' = v
                   /\ wait' = 0
                   /\ UNCHANGED stop_training
              ELSE /\ wait' = wait + 1
                   /\ UNCHANGED best
                   /\ stop_training' = (wait + 1 >= patience /\ epoch > 0)
  /\ IF stop_training' \/ epoch + 1 >= epochs
       THEN fpc' = "done" /\ UNCHANGED epoch
       ELSE fpc' = "epoch_begin" /\ epoch' = epoch + 1
  /\ UNCHANGED <<lr_solved, logs_val_acc, lr_hist>>
  /\ FitOnly

FitNext == FitBegin \/ EpochBegin \/ (\E v \in AccValues : EpochEnd(v))

\* ------------------------------------------------------------------------
\* Melting-point notebook: K-means on two features, then the per-cluster split
n_clusters == 3
max_iter   == 300      \* KMeans default

FeatVals   == 0..MaxFeat
NumCols    == 3        \* columns 0 and 1 (coh_en, bulk_m) and one further feature
NumTrain   == n_clusters + 1
NumTest    == MaxTest

\* X[:, [0,1]]
Cols01(X) == [k \in 1..Len(X) |-> <<X[k][1], X[k][2]>>]

\* a centroid is the mean of its members: [sx, sy, n] stands for (sx/n, sy/n)
Centroid(sx, sy, n) == [sx |-> sx, sy |-> sy, n |-> n]

\* squared distance of point p to centroid c, times c.n^2
Dist2Scaled(p, c) ==
  (p[1] * c.n - c.sx) * (p[1] * c.n - c.sx) + (p[2] * c.n - c.sy) * (p[2] * c.n - c.sy)

\* p is strictly closer to centroid c than to centroid d
Closer(p, c, d) == Dist2Scaled(p, c) * d.n * d.n < Dist2Scaled(p, d) * c.n * c.n

\* label of p: index (0-based) of the nearest centroid, the lowest on a tie
LabelOf(p, C) ==
  CHOOSE j \in 0..(Len(C) - 1) :
    /\ \A i \in 0..(j - 1) : Closer(p, C[j + 1], C[i + 1])
    /\ \A i \in (j + 1)..(Len(C) - 1) : ~Closer(p, C[i + 1], C[j + 1])

RECURSIVE SumOver(_, _, _)
SumOver(P, idx, col) ==
  IF idx = {} THEN 0
  ELSE LET i == CHOOSE i \in idx : TRUE
       IN  P[i][col] + SumOver(P, idx \ {i}, col)

\* one Lloyd iteration: assign every point, then move every centroid to the
\* mean of its members (a centroid without members stays)
LloydStep(P, C) ==
  [j \in 1..Len(C) |->
     LET members == {i \in 1..Len(P) : LabelOf(P[i], C) = j - 1}
     IN  IF members = {} THEN C[j]
         ELSE Centroid(SumOver(P, members, 1), SumOver(P, members, 2),
                       Cardinality(members))]

RECURSIVE Lloyd(_, _, _)
Lloyd(P, C, it) ==
  IF it = 0 \/ LloydStep(P, C) = C THEN C ELSE Lloyd(P, LloydStep(P, C), it - 1)

\* KMeans(n_clusters, random_state=42).fit(P): the seeded initialisation is a
\* fixed function of P (here the first n_clusters points), then Lloyd
KMeansFit(P) ==
  Lloyd(P, [j \in 1..n_clusters |-> Centroid(P[j][1], P[j][2], 1)], max_iter)

\* kmeans.predict(P)
KMeansPredict(C, P) == [k \in 1..Len(P) |-> LabelOf(P[k], C)]

\* the data given to fit, with the test rows appended
FitDataWithTest(ns) == Cols01(ns.X_train \o ns.X_test)

\* the data given to fit:  X_train[:,[0,1]]
FitData(ns) == Cols01(ns.X_train)

\* np.where(labels == i)[0]: the positions with label i, in increasing order
RECURSIVE Where(_, _, _)
Where(labels, i, from) ==
  IF from > Len(labels) THEN <<>>
  ELSE (IF labels[from] = i THEN <<from>> ELSE <<>>) \o Where(labels, i, from + 1)

Namespace(Xtr, Xte, ytr, yte) ==
  [X_train |-> Xtr, X_test |-> Xte, y_train |-> ytr, y_test |-> yte,
   kmeans |-> <<>>, train_cluster_labels |-> <<>>, test_cluster_labels |-> <<>>,
   X_train_cluster |-> <<>>, X_test_cluster |-> <<>>,
   y_train_cluster |-> <<>>, y_test_cluster |-> <<>>]

MeltIdle ==
  /\ runs = <<>>
  /\ mpc = "idle"
  /\ changed = "none"

\* the next value of a feature or target
Other(v) == (v + 1) % (MaxFeat + 1)

\* both runs start from the same split: X_train[:,[0,1]] is any data, the
\* remaining entries start at 0 and are changed by Perturb*
MeltInit ==
  /\ \E P \in [1..NumTrain -> [1..2 -> FeatVals]] :
       LET ns == Namespace([k \in 1..NumTrain |-> P[k] \o [c \in 1..(NumCols - 2) |-> 0]],
                           [k \in 1..NumTest |-> [c \in 1..NumCols |-> 0]],
                           [k \in 1..NumTrain |-> 0],
                           [k \in 1..NumTest |-> 0])
       IN  runs = <<ns, ns>>
  /\ mpc = "split"
  /\ changed = "none"

\* run 2 is given another value in one entry of X_test, y_train, y_test, or of
\* a column of X_train other than 0 and 1
PerturbXTest ==
  /\ mpc = "split" /\ changed = "none"
  /\ \E k \in 1..NumTest, c \in 1..NumCols :
       runs' = [runs EXCEPT ![2].X_test[k][c] = Other(@)]
  /\ changed' = "X_test"
  /\ UNCHANGED mpc
  /\ MeltOnly

PerturbYTrain ==
  /\ mpc = "split" /\ changed = "none"
  /\ \E k \in 1..NumTrain : runs' = [runs EXCEPT ![2].y_train[k] = Other(@)]
  /\ changed' = "y_train"
  /\ UNCHANGED mpc
  /\ MeltOnly

PerturbYTest ==
  /\ mpc = "split" /\ changed = "none"
  /\ \E k \in 1..NumTest : runs' = [runs EXCEPT ![2].y_test[k] = Other(@)]
  /\ changed' = "y_test"
  /\ UNCHANGED mpc
  /\ MeltOnly

PerturbOtherColumn ==
  /\ mpc = "split" /\ changed = "none"
  /\ \E k \in 1..NumTrain, c \in 3..NumCols :
       runs' = [runs EXCEPT ![2].X_train[k][c] = Other(@)]
  /\ changed' = "X_train[:,2:]"
  /\ UNCHANGED mpc
  /\ MeltOnly

\* kmeans = KMeans(n_clusters=n_clusters, random_state=42).fit(X_train[:,[0,1]])
KFit ==
  /\ mpc = "split"
  /\ runs' = [r \in 1..2 |-> [runs[r] EXCEPT !.kmeans = KMeansFit(FitData(runs[r]))]]
  /\ mpc' = "fitted"
  /\ UNCHANGED changed
  /\ MeltOnly

\* train_cluster_labels = kmeans.predict(X_train[:,[0,1]])
\* test_cluster_labels = kmeans.predict(X_test[:,[0,1]])
KPredict ==
  /\ mpc = "fitted"
  /\ runs' = [r \in 1..2 |->
       [runs[r] EXCEPT
          !.train_cluster_labels = KMeansPredict(runs[r].kmeans, Cols01(runs[r].X_train)),
          !.test_cluster_labels  = KMeansPredict(runs[r].kmeans, Cols01(runs[r].X_test))]]
  /\ mpc' = "labelled"
  /\ UNCHANGED changed
  /\ MeltOnly

\* the split with the targets of each cluster taken in reverse order
ClusterSplitTargetsReversed ==
  /\ mpc = "labelled"
  /\ runs' = [r \in 1..2 |->
       LET ns == runs[r]
           idx_train(i) == Where(ns.train_cluster_labels, i, 1)
           idx_test(i)  == Where(ns.test_cluster_labels, i, 1)
           rev(idx)     == [k \in 1..Len(idx) |-> idx[Len(idx) + 1 - k]]
       IN  [ns EXCEPT
              !.X_train_cluster = [i \in 0..(n_clusters - 1) |-> Take(ns.X_train, idx_train(i))],
              !.X_test_cluster  = [i \in 0..(n_clusters - 1) |-> Take(ns.X_test, idx_test(i))],
              !.y_train_cluster = [i \in 0..(n_clusters - 1) |-> Take(ns.y_train, rev(idx_train(i)))],
              !.y_test_cluster  = [i \in 0..(n_clusters - 1) |-> Take(ns.y_test, rev(idx_test(i)))]]]
  /\ mpc' = "clustered"
  /\ UNCHANGED changed
  /\ MeltOnly

\* for i in range(n_clusters):
\*     idx_train = np.where(train_cluster_labels == i)[0]; idx_test likewise
\*     X_train_cluster[i] = X_train[idx_train, :];  y_train_cluster[i] = y_train[idx_train]
\*     X_test_cluster[i] = X_test[idx_test, :];     y_test_cluster[i] = y_test[idx_test]
ClusterSplit ==
  /\ mpc = "labelled"
  /\ runs' = [r \in 1..2 |->
       LET ns == runs[r]
           idx_train(i) == Where(ns.train_cluster_labels, i, 1)
           idx_test(i)  == Where(ns.test_cluster_labels, i, 1)
       IN  [ns EXCEPT
              !.X_train_cluster = [i \in 0..(n_clusters - 1) |-> Take(ns.X_train, idx_train(i))],
              !.X_test_cluster  = [i \in 0..(n_clusters - 1) |-> Take(ns.X_test, idx_test(i))],
              !.y_train_cluster = [i \in 0..(n_clusters - 1) |-> Take(ns.y_train, idx_train(i))],
              !.y_test_cluster  = [i \in 0..(n_clusters - 1) |-> Take(ns.y_test, idx_test(i))]]]
  /\ mpc' = "clustered"
  /\ UNCHANGED changed
  /\ MeltOnly

MeltNext ==
  \/ PerturbXTest \/ PerturbYTrain \/ PerturbYTest \/ PerturbOtherColumn
  \/ KFit \/ KPredict \/ ClusterSplit

\* ------------------------------------------------------------------------
\* The code cells of every notebook, statement by statement: the names a
\* statement needs, the names it binds, the files it writes and the files it reads
Stmt(reads, binds, writes, loads) ==
  [reads |-> reads, binds |-> binds, writes |-> writes, loads |-> loads]
Cell(line, stmts) == [ok |-> TRUE, line |-> line, stmts |-> stmts]
\* a cell that is not valid Python ("X = "): running it raises SyntaxError
BadCell(line)     == [ok |-> FALSE, line |-> line, stmts |-> <<>>]

\* code cells of the virtual-environment setup notebook
SetupCells ==
  <<
  Cell(210, <<
      Stmt({}, {"sklearn"}, {}, {}),
      Stmt({}, {}, {}, {}),
      Stmt({"sklearn"}, {}, {}, {}) >>),
  Cell(236, <<
      Stmt({}, {"plt"}, {}, {}),
      Stmt({}, {"np"}, {}, {}),
      Stmt({"np"}, {"x"}, {}, {}),
      Stmt({"np", "x"}, {"y"}, {}, {}),
      Stmt({"plt", "x", "y"}, {}, {}, {}) >>)
  >>

\* code cells of the git / GitHub notebook
GitCells ==
  <<
  Cell(54, <<>>),
  Cell(126, <<>>)
  >>

\* code cells of the gas-permeability notebook
GasCells ==
  <<
  Cell(228, <<
      Stmt({}, {"pd"}, {}, {}),
      Stmt({}, {"np"}, {}, {}),
      Stmt({}, {"copy"}, {}, {}),
      Stmt({}, {"Chem", "DataStructs"}, {}, {}),
      Stmt({}, {"AllChem", "MACCSkeys"}, {}, {}),
      Stmt({}, {"plt"}, {}, {}),
      Stmt({}, {"train_test_split"}, {}, {}),
      Stmt({}, {"LinearRegression"}, {}, {}),
      Stmt({}, {"mean_squared_error", "r2_score"}, {}, {}) >>),
  Cell(258, <<
      Stmt({"pd"}, {"data"}, {}, {"Perm_Data.xlsx"}),
      Stmt({"data"}, {}, {}, {}) >>),
  Cell(280, <<
      Stmt({"data"}, {"He_data"}, {}, {}),
      Stmt({"data"}, {"H2_data"}, {}, {}),
      Stmt({"data"}, {"CO2_data"}, {}, {}),
      Stmt({"data"}, {"O2_data"}, {}, {}),
      Stmt({"data"}, {"N2_data"}, {}, {}),
      Stmt({"data"}, {"CH4_data"}, {}, {}) >>),
  Cell(295, <<
      Stmt({"CH4_data"}, {}, {}, {}) >>),
  Cell(320, <<
      Stmt({}, {"clean_df"}, {}, {}) >>),
  Cell(337, <<
      Stmt({"clean_df", "He_data"}, {"He_data"}, {}, {}),
      Stmt({"clean_df", "H2_data"}, {"H2_data"}, {}, {}),
      Stmt({"clean_df", "CO2_data"}, {"CO2_data"}, {}, {}),
      Stmt({"clean_df", "O2_data"}, {"O2_data"}, {}, {}),
      Stmt({"clean_df", "N2_data"}, {"N2_data"}, {}, {}),
      Stmt({"clean_df", "CH4_data"}, {"CH4_data"}, {}, {}) >>),
  Cell(356, <<
      Stmt({"O2_data"}, {}, {}, {}) >>),
  BadCell(383),
  Cell(400, <<>>),
  Cell(429, <<
      Stmt({}, {"calculate_fingerprint"}, {}, {}),
      Stmt({}, {"get_MACCS"}, {}, {}) >>),
  Cell(466, <<>>),
  Cell(485, <<>>),
  Cell(502, <<
      Stmt({"O2_data"}, {"ML_data"}, {}, {}) >>),
  Cell(519, <<
      Stmt({"Chem", "ML_data"}, {"mol_init"}, {}, {}),
      Stmt({"calculate_fingerprint", "mol_init", "np", "Chem", "DataStructs"}, {"fp"}, {}, {}),
      Stmt({"ML_data", "Chem", "calculate_fingerprint", "np", "DataStructs", "fp"}, {"i", "mol_temp", "fp_temp", "fp"}, {}, {}) >>),
  Cell(570, <<
      Stmt({"fp"}, {}, {}, {}),
      Stmt({}, {}, {}, {}),
      Stmt({"fp"}, {}, {}, {}) >>),
  Cell(588, <<
      Stmt({"ML_data"}, {"perms"}, {}, {}),
      Stmt({"perms"}, {}, {}, {}),
      Stmt({}, {}, {}, {}),
      Stmt({"perms"}, {}, {}, {}) >>),
  Cell(607, <<
      Stmt({"train_test_split", "fp", "np", "perms"}, {"X_train", "X_test", "y_train", "y_test"}, {}, {}) >>),
  Cell(626, <<
      Stmt({"LinearRegression"}, {"linreg"}, {}, {}),
      Stmt({"linreg", "X_train", "y_train"}, {}, {}, {}) >>),
  Cell(636, <<
      Stmt({"linreg", "X_train", "y_train"}, {}, {}, {}),
      Stmt({"linreg", "X_test", "y_test"}, {}, {}, {}) >>),
  Cell(653, <<
      Stmt({"linreg", "X_test"}, {"y_pred"}, {}, {}),
      Stmt({"y_pred"}, {}, {}, {}),
      Stmt({"y_test"}, {}, {}, {}) >>),
  Cell(671, <<
      Stmt({"plt"}, {}, {}, {}),
      Stmt({"plt", "y_test", "y_pred"}, {}, {}, {}),
      Stmt({"plt"}, {}, {}, {}),
      Stmt({"plt"}, {}, {}, {}),
      Stmt({"plt"}, {}, {}, {}) >>),
  Cell(684, <<
      Stmt({"y_test", "y_pred"}, {"errors"}, {}, {}),
      Stmt({"plt"}, {}, {}, {}),
      Stmt({"plt", "errors"}, {}, {}, {}),
      Stmt({"plt"}, {}, {}, {}),
      Stmt({"plt"}, {}, {}, {}),
      Stmt({"plt"}, {}, {}, {}) >>),
  Cell(731, <<>>),
  Cell(740, <<>>),
  Cell(749, <<>>),
  Cell(772, <<>>),
  Cell(781, <<>>),
  Cell(790, <<>>),
  Cell(813, <<>>),
  Cell(822, <<>>),
  Cell(831, <<>>)
  >>

\* code cells of the interpretable-ML notebook
InterpCells ==
  <<
  Cell(72, <<
      Stmt({}, {"pd"}, {}, {}),
      Stmt({}, {"np"}, {}, {}),
      Stmt({}, {"copy"}, {}, {}),
      Stmt({}, {"Chem", "DataStructs"}, {}, {}),
      Stmt({}, {"AllChem", "MACCSkeys"}, {}, {}),
      Stmt({}, {"plt"}, {}, {}),
      Stmt({}, {"train_test_split"}, {}, {}),
      Stmt({}, {"LinearRegression"}, {}, {}),
      Stmt({}, {"mean_squared_error", "r2_score"}, {}, {}),
      Stmt({}, {"pkl"}, {}, {}),
      Stmt({}, {"RandomForestRegressor"}, {}, {}),
      Stmt({}, {"permutation_importance"}, {}, {}),
      Stmt({}, {"shap"}, {}, {}) >>),
  Cell(103, <<
      Stmt({"pkl"}, {"input_file", "X_train"}, {}, {"MACCS_O2_Xtrain.pkl"}),
      Stmt({"pkl"}, {"input_file", "X_test"}, {}, {"MACCS_O2_Xtest.pkl"}),
      Stmt({"pkl"}, {"input_file", "y_train"}, {}, {"O2_ytrain.pkl"}),
      Stmt({"pkl"}, {"input_file", "y_test"}, {}, {"O2_ytest.pkl"}) >>),
  Cell(119, <<
      Stmt({"X_train"}, {}, {}, {}),
      Stmt({"y_train"}, {}, {}, {}),
      Stmt({"X_test"}, {}, {}, {}),
      Stmt({"y_test"}, {}, {}, {}) >>),
  Cell(155, <<>>),
  Cell(172, <<
      Stmt({"rfr"}, {"importances"}, {}, {}),
      Stmt({"plt"}, {"fig", "ax"}, {}, {}),
      Stmt({"ax", "importances"}, {}, {}, {}),
      Stmt({"ax"}, {}, {}, {}),
      Stmt({"ax"}, {}, {}, {}),
      Stmt({"ax"}, {}, {}, {}) >>),
  Cell(211, <<>>),
  Cell(234, <<>>),
  Cell(269, <<>>),
  Cell(291, <<>>),
  Cell(322, <<>>)
  >>

\* code cells of the melting-point notebook
MeltCells ==
  <<
  Cell(426, <<
      Stmt({}, {"np"}, {}, {}),
      Stmt({}, {"pd"}, {}, {}),
      Stmt({}, {"sqrt"}, {}, {}),
      Stmt({}, {"plt"}, {}, {}),
      Stmt({}, {"train_test_split"}, {}, {}),
      Stmt({}, {"LinearRegression"}, {}, {}),
      Stmt({}, {"KMeans"}, {}, {}),
      Stmt({}, {"mean_absolute_error", "mean_squared_error"}, {}, {}),
      Stmt({}, {"ElementProperty"}, {}, {}),
      Stmt({}, {"PymatgenData"}, {}, {}),
      Stmt({}, {"Composition"}, {}, {}) >>),
  Cell(458, <<
      Stmt({"pd"}, {"data"}, {}, {"Melting_Data.csv"}),
      Stmt({"data"}, {}, {}, {}) >>),
  Cell(503, <<
      Stmt({"data", "Composition"}, {}, {}, {}),
      Stmt({}, {"descriptors"}, {}, {}),
      Stmt({}, {"stats"}, {}, {}),
      Stmt({"ElementProperty", "PymatgenData", "descriptors", "stats"}, {"ep"}, {}, {}),
      Stmt({"ep", "data"}, {"data"}, {}, {}),
      Stmt({"data"}, {"data"}, {}, {}) >>),
  Cell(522, <<
      Stmt({"data"}, {}, {}, {}) >>),
  Cell(548, <<>>),
  Cell(564, <<
      Stmt({"train_test_split", "X", "y"}, {"X_train", "X_test", "y_train", "y_test"}, {}, {}) >>),
  Cell(589, <<>>),
  Cell(604, <<>>),
  Cell(619, <<
      Stmt({"linreg", "X_train"}, {"y_pred_train"}, {}, {}),
      Stmt({"linreg", "X_test"}, {"y_pred_test"}, {}, {}) >>),
  Cell(642, <<>>),
  Cell(657, <<
      Stmt({"plt"}, {}, {}, {}),
      Stmt({"plt"}, {}, {}, {}),
      Stmt({"plt", "y_train", "y_pred_train"}, {}, {}, {}),
      Stmt({"plt", "y_test", "y_pred_test"}, {}, {}, {}),
      Stmt({"plt"}, {}, {}, {}),
      Stmt({"plt"}, {}, {}, {}),
      Stmt({"plt"}, {}, {}, {}),
      Stmt({"plt"}, {}, {}, {}),
      Stmt({"plt"}, {}, {}, {}) >>),
  Cell(681, <<
      Stmt({"y_test", "y_pred_test"}, {"errors_test"}, {}, {}),
      Stmt({"plt"}, {}, {}, {}),
      Stmt({"plt", "errors_test"}, {}, {}, {}),
      Stmt({"plt"}, {}, {}, {}),
      Stmt({"plt"}, {}, {}, {}),
      Stmt({"plt"}, {}, {}, {}) >>),
  Cell(704, <<
      Stmt({}, {"n_clusters"}, {}, {}),
      Stmt({"KMeans", "n_clusters", "X_train"}, {"kmeans"}, {}, {}) >>),
  Cell(714, <<
      Stmt({"kmeans", "X_train"}, {"train_cluster_labels"}, {}, {}),
      Stmt({"kmeans", "X_test"}, {"test_cluster_labels"}, {}, {}) >>),
  Cell(724, <<
      Stmt({}, {"X_train_cluster", "X_test_cluster"}, {}, {}),
      Stmt({}, {"y_train_cluster", "y_test_cluster"}, {}, {}),
      Stmt({"n_clusters", "np", "train_cluster_labels", "test_cluster_labels", "X_train", "X_train_cluster", "X_test", "X_test_cluster", "y_train", "y_train_cluster", "y_test", "y_test_cluster"}, {"i", "idx_train", "idx_test"}, {}, {}) >>),
  Cell(749, <<
      Stmt({"plt"}, {}, {}, {}),
      Stmt({"n_clusters", "plt", "X_train_cluster"}, {"i"}, {}, {}),
      Stmt({"plt"}, {}, {}, {}),
      Stmt({"plt"}, {}, {}, {}),
      Stmt({"plt"}, {}, {}, {}) >>),
  Cell(779, <<
      Stmt({}, {"y_pred_train_cluster", "y_pred_test_cluster"}, {}, {}) >>),
  Cell(794, <<>>),
  Cell(809, <<
      Stmt({"plt"}, {}, {}, {}),
      Stmt({"n_clusters", "plt", "y_train_cluster", "y_pred_train_cluster", "y_test_cluster", "y_pred_test_cluster"}, {"i"}, {}, {}),
      Stmt({"plt"}, {}, {}, {}),
      Stmt({"plt"}, {}, {}, {}),
      Stmt({"plt"}, {}, {}, {}),
      Stmt({"plt"}, {}, {}, {}),
      Stmt({"plt"}, {}, {}, {}),
      Stmt({"plt"}, {}, {}, {}) >>),
  Cell(836, <<
      Stmt({}, {"errors_test"}, {}, {}),
      Stmt({"n_clusters", "errors_test", "y_test_cluster", "y_pred_test_cluster"}, {"i"}, {}, {}),
      Stmt({"plt"}, {}, {}, {}),
      Stmt({"plt", "errors_test"}, {}, {}, {}),
      Stmt({"plt"}, {}, {}, {}),
      Stmt({"plt"}, {}, {}, {}),
      Stmt({"plt"}, {}, {}, {}) >>),
  Cell(886, <<>>),
  Cell(895, <<>>),
  Cell(904, <<>>),
  Cell(927, <<>>),
  Cell(936, <<>>),
  Cell(945, <<>>),
  Cell(954, <<>>),
  Cell(977, <<>>),
  Cell(986, <<>>),
  Cell(995, <<>>),
  Cell(1004, <<>>),
  Cell(1013, <<>>)
  >>

\* code cells of the space-group CNN notebook
CnnCells ==
  <<
  Cell(1126, <<
      Stmt({}, {"tf"}, {}, {}),
      Stmt({}, {"json"}, {}, {}),
      Stmt({}, {"np"}, {}, {}),
      Stmt({}, {"pd"}, {}, {}),
      Stmt({}, {"plt"}, {}, {}),
      Stmt({}, {"Model"}, {}, {}),
      Stmt({}, {"random"}, {}, {}),
      Stmt({}, {"regularizers"}, {}, {}),
      Stmt({}, {"Input", "Conv1D", "Dense", "MaxPooling1D", "Flatten", "Dropout", "Activation"}, {}, {}),
      Stmt({}, {"l2"}, {}, {}),
      Stmt({}, {"BatchNormalization"}, {}, {}),
      Stmt({}, {"Sequential"}, {}, {}),
      Stmt({}, {"LearningRateScheduler", "EarlyStopping"}, {}, {}) >>),
  BadCell(1169),
  BadCell(1194),
  Cell(1223, <<>>),
  Cell(1240, <<
      Stmt({"X_train"}, {}, {}, {}),
      Stmt({"y_train"}, {}, {}, {}),
      Stmt({"X_test"}, {}, {}, {}),
      Stmt({"y_test"}, {}, {}, {}) >>),
  Cell(1272, <<
      Stmt({"np"}, {"SG_ORDER_CNN"}, {}, {}) >>),
  BadCell(1297),
  Cell(1324, <<>>),
  Cell(1436, <<
      Stmt({}, {"input_shape"}, {}, {}),
      Stmt({}, {"l2_lambda"}, {}, {}),
      Stmt({}, {"num_classes"}, {}, {}) >>),
  Cell(1454, <<
      Stmt({"input_shape", "num_classes"}, {"CNN_classifier"}, {}, {}) >>),
  Cell(1495, <<
      Stmt({"CNN_classifier", "Sequential", "Input", "BatchNormalization"}, {"model"}, {}, {}) >>),
  Cell(1511, <<
      Stmt({"model"}, {}, {}, {}) >>),
  Cell(1534, <<
      Stmt({}, {"seed"}, {}, {}),
      Stmt({"seed"}, {}, {}, {}),
      Stmt({"random"}, {}, {}, {}) >>),
  Cell(1563, <<
      Stmt({"pd"}, {"size_sg"}, {}, {"size_sg.csv"}) >>),
  Cell(1572, <<
      Stmt({"size_sg"}, {"labels"}, {}, {}),
      Stmt({"size_sg"}, {"sizes"}, {}, {}),
      Stmt({"plt", "sizes", "labels"}, {}, {}, {}),
      Stmt({"plt"}, {}, {}, {}) >>),
  Cell(1600, <<
      Stmt({}, {"weights"}, {}, {}) >>),
  Cell(1643, <<
      Stmt({}, {"lr_schedule"}, {}, {}) >>),
  Cell(1663, <<
      Stmt({"LearningRateScheduler", "lr_schedule"}, {"lr_schedule_callback"}, {}, {}),
      Stmt({"EarlyStopping"}, {"earlystopping_callback"}, {}, {}),
      Stmt({"lr_schedule_callback", "earlystopping_callback"}, {"callbacks"}, {}, {}) >>),
  Cell(1704, <<>>),
  Cell(1745, <<
      Stmt({}, {"epochs"}, {}, {}),
      Stmt({"model", "X_train", "y_train_one_hot", "epochs", "callbacks", "weights"}, {"history"}, {}, {}) >>),
  Cell(1788, <<
      Stmt({"model"}, {}, {"my_model.h5"}, {}),
      Stmt({"history"}, {"history_dict"}, {}, {}),
      Stmt({"pd", "history_dict"}, {}, {"history.json"}, {}) >>),
  Cell(1822, <<>>)
  >>

Notebooks == {"setup", "git", "gas", "interp", "melt", "cnn"}

CellsOf(n) ==
  CASE n = "setup"  -> SetupCells
    [] n = "git"    -> GitCells
    [] n = "gas"    -> GasCells
    [] n = "interp" -> InterpCells
    [] n = "melt"   -> MeltCells
    [] n = "cnn"    -> CnnCells

\* a statement that writes nothing
WritesNothing(st) == {}

\* the files a statement writes
WritesOf(st) == st.writes

\* the statements of a cell in order, up to the first that raises
RECURSIVE RunStmts(_, _, _, _)
RunStmts(stmts, ns, fs, present) ==
  IF stmts = <<>> THEN [namespace |-> ns, files |-> fs, error |-> "none"]
  ELSE LET st == Head(stmts)
       IN  IF ~(st.reads \subseteq ns)
             THEN [namespace |-> ns, files |-> fs, error |-> "NameError"]
           ELSE IF st.loads # {} /\ ~present
             THEN [namespace |-> ns, files |-> fs, error |-> "FileNotFoundError"]
           ELSE RunStmts(Tail(stmts), ns \cup st.binds, fs \cup WritesOf(st), present)

CellIdle ==
  /\ nb = "none" /\ run_all = FALSE /\ data_files = FALSE
  /\ next_cell = 0 /\ namespace = {} /\ files = {} /\ error = "none"

\* a notebook is opened with a fresh kernel
CellInit ==
  /\ nb \in Notebooks
  /\ run_all \in BOOLEAN
  /\ data_files \in BOOLEAN
  /\ next_cell = 1
  /\ namespace = {}
  /\ files = {}
  /\ error = "none"

\* the next code cell is run
RunCell ==
  /\ nb \in Notebooks
  /\ next_cell <= Len(CellsOf(nb))
  /\ ~(run_all /\ error # "none")
  /\ LET c == CellsOf(nb)[next_cell]
         r == RunStmts(c.stmts, namespace, files, data_files)
     IN  IF c.ok
           THEN /\ namespace' = r.namespace
                /\ files' = r.files
                /\ error' = r.error
           ELSE /\ error' = "SyntaxError"
                /\ UNCHANGED <<namespace, files>>
  /\ next_cell' = next_cell + 1
  /\ UNCHANGED <<nb, run_all, data_files>>
  /\ CellOnly

CellNext == RunCell

\* ------------------------------------------------------------------------
\* Gas-permeability notebook: gas-specific dataframes and clean_df
Gases == {"He", "H2", "CO2", "O2", "N2", "CH4"}
Columns == {"Polymer", "SMILES"} \cup Gases

\* a missing element of the sheet
NaN == 0 - 1

\* a row of Perm_Data.xlsx: a value for every column; here a row lacks at most
\* one element, and the values present are a name, a SMILES string 1..MaxSmiles
\* and a permeability
SheetRow(s, missing) ==
  [c \in Columns |-> IF c = missing THEN NaN ELSE IF c = "SMILES" THEN s ELSE 1]
SheetRows == {SheetRow(s, m) : s \in 1..MaxSmiles, m \in Columns \cup {"none"}}

\* data.loc[:, ["Polymer", "SMILES", g]]
GasColumns(df, g) ==
  [k \in 1..Len(df) |->
     [Polymer |-> df[k]["Polymer"], SMILES |-> df[k]["SMILES"], perm |-> df[k][g]]]

\* clean_df(df) as it stands in the notebook: the two steps are comments
\* only, and the function returns its argument
clean_df(df) == df

CleanIdle ==
  /\ data = <<>>
  /\ gas_data = <<>>
  /\ clpc = "idle"

\* data = pd.read_excel('Perm_Data.xlsx')
CleanInit ==
  /\ data \in UNION {[1..n -> SheetRows] : n \in 1..MaxRows}
  /\ gas_data = <<>>
  /\ clpc = "read"

\* He_data = data.loc[:,["Polymer", "SMILES", "He"]]  ...  CH4_data likewise
SplitGases ==
  /\ clpc = "read"
  /\ gas_data' = [g \in Gases |-> GasColumns(data, g)]
  /\ clpc' = "gases"
  /\ UNCHANGED data
  /\ CleanOnly

\* He_data = clean_df(He_data)  ...  CH4_data = clean_df(CH4_data)
CleanGases ==
  /\ clpc = "gases"
  /\ gas_data' = [g \in Gases |-> clean_df(gas_data[g])]
  /\ clpc' = "cleaned"
  /\ UNCHANGED data
  /\ CleanOnly

CleanNext == SplitGases \/ CleanGases

\* ------------------------------------------------------------------------
\* Space-group CNN notebook: training weights
RECURSIVE SumSeq(_)
SumSeq(q) == IF q = <<>> THEN 0 ELSE Head(q) + SumSeq(Tail(q))

\* weights = {}   as it stands in the notebook: a dictionary without entries
EmptyDict == [k \in {} |-> [num |-> 0, den |-> 1]]

\* the dictionary the instructions ask for: class index k -> total data
\* points / data points of class k, kept as the fraction num / den
weights_completed(sz) ==
  [k \in 0..(Len(sz) - 1) |-> [num |-> SumSeq(sz), den |-> sz[k + 1]]]

WeightIdle ==
  /\ w_solved = FALSE
  /\ sizes = <<>>
  /\ weights = EmptyDict
  /\ wpc = "idle"

WeightInit ==
  /\ w_solved \in BOOLEAN
  /\ sizes = <<>>
  /\ weights = EmptyDict
  /\ wpc = "start"

\* size_sg = pd.read_csv('size_sg.csv', header=None); sizes = size_sg[1].to_numpy()
ReadSizes ==
  /\ wpc = "start"
  /\ sizes' \in [1..num_classes -> 1..MaxCount]
  /\ wpc' = "sizes"
  /\ UNCHANGED <<w_solved, weights>>
  /\ WeightOnly

\* the weights cell
SetWeights ==
  /\ wpc = "sizes"
  /\ weights' = IF w_solved THEN weights_completed(sizes) ELSE EmptyDict
  /\ wpc' = "weights"
  /\ UNCHANGED <<w_solved, sizes>>
  /\ WeightOnly

WeightNext == ReadSizes \/ SetWeights

\* ------------------------------------------------------------------------
\* The documented setup (README.md, then virtual_environment_setup.ipynb)
Docs     == {"README", "notebook"}
EnvNames == {"base", "ml4ms-skl"}

\* a step of a document: the line it is on, what it does, the packages or
\* environment it names, and the environment it says must be activated
Step(line, kind, env, pkgs, needs) ==
  [line |-> line, kind |-> kind, env |-> env, pkgs |-> pkgs, needs |-> needs]

\* README.md, "Install and set up miniconda and mamba" and the hand-over
ReadmeSteps ==
  << Step(57, "miniconda", "base", {"conda"}, "none"),       \* install miniconda
     Step(59, "terminal", "none", {}, "none"),               \* open a terminal
     Step(60, "run", "none", {}, "none"),                    \* conda info --envs
     Step(61, "run", "none", {}, "none"),                    \* conda config --add channels
     Step(62, "install", "none", {"mamba"}, "none"),         \* conda install mamba
     Step(63, "run", "none", {}, "none"),                    \* mamba update --all
     Step(64, "install", "none", {"jupyter"}, "none"),       \* mamba install jupyter
     Step(72, "terminal", "none", {}, "none"),               \* open a new terminal
     Step(76, "run", "none", {}, "ml4ms-skl") >>             \* env activated: jupyter notebook

\* virtual_environment_setup.ipynb, its markdown steps and two code cells
NotebookSteps ==
  << Step(96, "miniconda", "base", {"conda"}, "none"),       \* install miniconda
     Step(100, "terminal", "none", {}, "none"),              \* open a terminal
     Step(103, "run", "none", {}, "none"),                   \* conda info --envs
     Step(104, "run", "none", {}, "none"),                   \* conda config --add channels
     Step(105, "install", "none", {"mamba"}, "none"),        \* conda install mamba
     Step(106, "run", "none", {}, "none"),                   \* mamba update
     Step(107, "install", "none", {"jupyter"}, "none"),      \* conda install jupyter
     Step(150, "terminal", "none", {}, "none"),              \* open the terminal of your choice
     Step(151, "create", "ml4ms-skl", {"python"}, "none"),   \* mamba create -n ml4ms-skl python=3.12
     Step(153, "activate", "ml4ms-skl", {}, "none"),         \* conda activate ml4ms-skl
     Step(154, "run", "none", {}, "none"),                   \* mamba list
     Step(155, "run", "none", {}, "none"),                   \* python --version
     Step(174, "run", "none", {}, "none"),                   \* python -m ipykernel install ...
     Step(197, "install", "none", {"scikit-learn"}, "ml4ms-skl"),  \* mamba install scikit-learn
     Step(210, "run", "none", {}, "none"),                   \* run the sklearn cell
     Step(236, "run", "none", {}, "none"),                   \* run the plotting cell
     Step(251, "install", "none", {"matplotlib"}, "ml4ms-skl"),    \* mamba install matplotlib
     Step(252, "run", "none", {}, "none"),                   \* run the plotting cell again
     Step(264, "run", "none", {}, "ml4ms-skl") >>            \* select ml4ms-skl as the kernel

StepsOf(d) == IF d = "README" THEN ReadmeSteps ELSE NotebookSteps

\* what each document says may be installed in base
\* (README line 68: conda, mamba and jupyter; notebook line 111: conda and mamba)
AllowedInBase(d) ==
  IF d = "README" THEN {"conda", "mamba", "jupyter"} ELSE {"conda", "mamba"}

NoPackages == [e \in EnvNames |-> {}]

SetupIdle ==
  /\ plan = "none" /\ strict = FALSE /\ doc = "none" /\ step = 0
  /\ envs = {} /\ active = "none" /\ installed = NoPackages
  /\ base_installs = [d \in Docs |-> {}] /\ unmet = {} /\ halted = FALSE

\* a machine without miniconda, or with it and possibly mamba and jupyter
\* already in base, and a reader about to start
SetupInit ==
  /\ plan \in {"README", "notebook", "README+notebook"}
  /\ strict \in BOOLEAN
  /\ doc = IF plan = "notebook" THEN "notebook" ELSE "README"
  /\ step = 1
  /\ \E has_conda \in BOOLEAN, already \in SUBSET {"mamba", "jupyter"} :
       /\ envs = IF has_conda THEN {"base"} ELSE {}
       /\ installed = IF has_conda
                        THEN [NoPackages EXCEPT !["base"] = {"conda"} \cup already]
                        ELSE NoPackages
  /\ active = "none"
  /\ base_installs = [d \in Docs |-> {}]
  /\ unmet = {}
  /\ halted = FALSE

AtStep     == ~halted /\ doc \in Docs /\ step <= Len(StepsOf(doc))
ThisStep   == StepsOf(doc)[step]
\* the step asks for an environment that does not exist
Unmet(st)  == st.needs # "none" /\ st.needs \notin envs
\* the environment the step acts in: the one it asks for when it exists
ActiveFor(st) == IF st.needs # "none" /\ st.needs \in envs THEN st.needs ELSE active

\* bookkeeping common to every step: note an unmet requirement, move on or stop
Advance(st) ==
  /\ unmet' = IF Unmet(st) THEN unmet \cup {[doc |-> doc, line |-> st.line]} ELSE unmet
  /\ halted' = (strict /\ Unmet(st))
  /\ step' = IF strict /\ Unmet(st) THEN step ELSE step + 1
  /\ UNCHANGED <<plan, strict, doc>>
  /\ SetupOnly


\* the reader stops instead of carrying out the step
Stops(st) == strict /\ Unmet(st)

\* "install miniconda": base comes into existence with conda in it
InstallMiniconda ==
  /\ AtStep /\ ThisStep.kind = "miniconda"
  /\ envs' = envs \cup {ThisStep.env}
  /\ installed' = [installed EXCEPT ![ThisStep.env] = @ \cup ThisStep.pkgs]
  /\ base_installs' = [base_installs EXCEPT ![doc] = @ \cup ThisStep.pkgs]
  /\ UNCHANGED active
  /\ Advance(ThisStep)

\* "open a terminal": a new terminal has base activated
OpenTerminal ==
  /\ AtStep /\ ThisStep.kind = "terminal"
  /\ active' = IF "base" \in envs THEN "base" ELSE "none"
  /\ UNCHANGED <<envs, installed, base_installs>>
  /\ Advance(ThisStep)

\* a command or cell that installs nothing
RunCommand ==
  /\ AtStep /\ ThisStep.kind = "run"
  /\ active' = IF Stops(ThisStep) THEN active ELSE ActiveFor(ThisStep)
  /\ UNCHANGED <<envs, installed, base_installs>>
  /\ Advance(ThisStep)

\* "conda install ..." / "mamba install ...": into the activated environment
InstallPackages ==
  /\ AtStep /\ ThisStep.kind = "install"
  /\ LET target == ActiveFor(ThisStep)
         acts   == ~Stops(ThisStep) /\ target \in envs
     IN  /\ active' = IF Stops(ThisStep) THEN active ELSE target
         /\ installed' = IF acts THEN [installed EXCEPT ![target] = @ \cup ThisStep.pkgs]
                                 ELSE installed
         /\ base_installs' = IF acts /\ target = "base"
                               THEN [base_installs EXCEPT ![doc] = @ \cup ThisStep.pkgs]
                               ELSE base_installs
  /\ UNCHANGED envs
  /\ Advance(ThisStep)

\* "mamba create -n ml4ms-skl python=3.12"
CreateEnv ==
  /\ AtStep /\ ThisStep.kind = "create"
  /\ envs' = envs \cup {ThisStep.env}
  /\ installed' = [installed EXCEPT ![ThisStep.env] = @ \cup ThisStep.pkgs]
  /\ UNCHANGED <<active, base_installs>>
  /\ Advance(ThisStep)

\* "conda activate ml4ms-skl"
Activate ==
  /\ AtStep /\ ThisStep.kind = "activate"
  /\ active' = IF ThisStep.env \in envs THEN ThisStep.env ELSE active
  /\ UNCHANGED <<envs, installed, base_installs>>
  /\ Advance(ThisStep)

\* the README hands over to the notebook ("open the file
\* virtual_environment_setup.ipynb")
HandOver ==
  /\ ~halted /\ plan = "README+notebook" /\ doc = "README"
  /\ step > Len(ReadmeSteps)
  /\ doc' = "notebook" /\ step' = 1
  /\ UNCHANGED <<plan, strict, envs, active, installed, base_installs, unmet, halted>>
  /\ SetupOnly

SetupNext ==
  \/ InstallMiniconda \/ OpenTerminal \/ RunCommand \/ InstallPackages
  \/ CreateEnv \/ Activate \/ HandOver

\* ------------------------------------------------------------------------
\* The notebooks as specifications
GasIdle ==
  /\ ML_data = <<>> /\ gpc = "idle" /\ gi = 0 /\ fp = <<>> /\ fp_temp = Unbound
  /\ stdout = <<>> /\ exc = "none" /\ perms = <<>>
  /\ X_train = <<>> /\ X_test = <<>> /\ y_train = <<>> /\ y_test = <<>>
  /\ y_pred = <<>>

CnnIdle ==
  /\ solved = FALSE /\ cpc = "idle" /\ cexc = "none"
  /\ n_samples = 0 /\ shuffle = 0 /\ n_train = 0 /\ n_test = 0
  /\ y_train_sg = <<>> /\ y_train_one_hot = <<>> /\ layers = <<>>

InitGas     == GasInit /\ CnnIdle /\ FitIdle /\ MeltIdle /\ CellIdle /\ CleanIdle /\ WeightIdle /\ SetupIdle
InitPrep    == CnnInit /\ GasIdle /\ FitIdle /\ MeltIdle /\ CellIdle /\ CleanIdle /\ WeightIdle /\ SetupIdle
InitFit     == FitInit /\ GasIdle /\ CnnIdle /\ MeltIdle /\ CellIdle /\ CleanIdle /\ WeightIdle /\ SetupIdle
InitMelt    == MeltInit /\ GasIdle /\ CnnIdle /\ FitIdle /\ CellIdle /\ CleanIdle /\ WeightIdle /\ SetupIdle
InitCells   == CellInit /\ GasIdle /\ CnnIdle /\ FitIdle /\ MeltIdle /\ CleanIdle /\ WeightIdle /\ SetupIdle
InitClean   == CleanInit /\ GasIdle /\ CnnIdle /\ FitIdle /\ MeltIdle /\ CellIdle /\ WeightIdle /\ SetupIdle
InitWeights == WeightInit /\ GasIdle /\ CnnIdle /\ FitIdle /\ MeltIdle /\ CellIdle /\ CleanIdle /\ SetupIdle
InitSetup   == SetupInit /\ GasIdle /\ CnnIdle /\ FitIdle /\ MeltIdle /\ CellIdle /\ CleanIdle /\ WeightIdle

SpecGas     == InitGas /\ [][GasNext]_vars
SpecPrep    == InitPrep /\ [][CnnNext]_vars
SpecFit     == InitFit /\ [][FitNext]_vars
SpecMelt    == InitMelt /\ [][MeltNext]_vars
SpecCells   == InitCells /\ [][CellNext]_vars
SpecClean   == InitClean /\ [][CleanNext]_vars
SpecWeights == InitWeights /\ [][WeightNext]_vars
SpecSetup   == InitSetup /\ [][SetupNext]_vars

\* ------------------------------------------------------------------------
\* Claims about the gas-permeability notebook (checked under SpecGas)

\* polymer k (0-based, as in the notebook) cannot be fingerprinted
FailsAt(k) == calculate_fingerprint(MolFromSmiles(ML_data[k + 1].smiles)).raised

\* the cell has run the conversion of polymer k
Attempted(k) ==
  IF k = 0 THEN gpc # "fingerprints"
           ELSE gi > k \/ (gi = k /\ gpc = "raised")

ErrorLines == {j \in 1..Len(stdout) : stdout[j] = ErrorLine}
LoopDone   == gpc \in {"stacked", "perms", "split", "fitted", "predicted"}

\* C1 as claimed: a failure at any index 0..N-1 propagates and stops the cell;
\* none is caught and execution never continues past it.
C1_EveryFailurePropagates ==
  /\ ErrorLines = {}
  /\ \A k \in 0..(Len(ML_data) - 1) :
       (Attempted(k) /\ FailsAt(k)) =>
          (gpc = "raised" /\ exc = "ArgumentError" /\ gi = k)

\* C1 amended: only a failure at index 0 propagates. A failure at an index
\* i >= 1 is caught by the bare except: "Error getting fingerprint" is printed
\* once for it and the same iteration goes on to the stacking statement, which
\* stacks a row for i, or raises NameError when no fp_temp was ever assigned
\* (i = 1).
C1_OnlyFirstFailurePropagates ==
  /\ (Attempted(0) /\ FailsAt(0)) =>
        (gpc = "raised" /\ exc = "ArgumentError" /\ fp = <<>> /\ stdout = <<>>)
  /\ Cardinality(ErrorLines) =
        Cardinality({k \in 1..(Len(ML_data) - 1) : Attempted(k) /\ FailsAt(k)})
  /\ \A k \in 1..(Len(ML_data) - 1) :
       (Attempted(k) /\ FailsAt(k)) =>
          \/ Len(fp) >= k + 1
          \/ (gpc = "raised" /\ exc = "NameError" /\ k = 1 /\ gi = 1 /\ ~fp_temp.bound)

\* a failure at an index >= 1 was caught and the loop ran to its end
C1_Witness == ErrorLines # {} /\ gpc = "stacked"

\* C2 as claimed: when the cell has finished, fp has N rows and row i is the
\* fingerprint of the SMILES string of row i, whichever polymers failed.
C2_RowIsOwnFingerprint ==
  LoopDone =>
    /\ Len(fp) = Len(ML_data)
    /\ \A k \in 1..Len(ML_data) :
         LET f == calculate_fingerprint(MolFromSmiles(ML_data[k].smiles))
         IN  ~f.raised /\ fp[k] = f.bits

\* C3: features and targets have the same number of samples wherever they
\* are paired: rows(fp) = len(perms) = len(ML_data) before the split, the two
\* halves of the split pairwise, and len(y_pred) = len(y_test).
C3_ShapesMatch ==
  /\ LoopDone => Len(fp) = Len(ML_data)
  /\ gpc \in {"perms", "split", "fitted", "predicted"} =>
        (Len(perms) = Len(ML_data) /\ Len(fp) = Len(perms))
  /\ gpc \in {"split", "fitted", "predicted"} =>
        /\ Len(X_train) = Len(y_train)
        /\ Len(X_test) = Len(y_test)
        /\ Len(X_train) + Len(X_test) = Len(fp)
        /\ Len(X_train) > 0 /\ Len(X_test) > 0
  /\ gpc = "predicted" => Len(y_pred) = Len(y_test)

\* a run with a failed fingerprint that went through split and prediction
C3_Witness == gpc = "predicted" /\ ErrorLines # {}

\* ------------------------------------------------------------------------
\* Claims about the preparation cells of the CNN notebook (checked under SpecPrep)

Split   == solved /\ cpc \in {"encode", "build", "built"}
Encoded == solved /\ cpc \in {"build", "built"}

C8_ThirteenLayers ==
  cpc = "built" =>
    /\ Len(layers) = 13
    /\ [k \in 1..Len(layers) |-> layers[k].type] =
         << "Input", "BatchNormalization", "Conv1D", "BatchNormalization",
            "Conv1D", "BatchNormalization", "MaxPooling1D", "Dropout",
            "Flatten", "Dense", "BatchNormalization", "Dropout", "Dense" >>
    /\ layers = CNN_classifier \o RestOfLayers
    /\ layers[13].activation = "softmax"
    /\ OutShape(layers, input_shape) = <<8>>
    /\ OutShape(layers, input_shape) = <<num_classes>>

\* C9: the split of the 50550 samples with test_size = 0.2 has 40440 training
\* and 10110 testing samples, and right after the split every sample is in
\* exactly one of the two sets.
C9_SplitSizes ==
  Split =>
    /\ n_samples = 50550
    /\ n_train = 40440
    /\ n_test = 10110
    /\ cpc = "encode" =>
         /\ TrainIdx \cap TestIdx = {}
         /\ TrainIdx \cup TestIdx = 0..(n_samples - 1)
         /\ Cardinality(TrainIdx) = n_train
         /\ Cardinality(TestIdx) = n_test

\* the split has been made with a shuffle that is not the identity
C9_Witness == Split /\ cpc = "encode" /\ shuffle > 0 /\ n_train + n_test = NumPDFs

\* ------------------------------------------------------------------------
\* Claims about the training loop of the CNN notebook (checked under SpecFit)

\* epochs that have been begun / that have ended
EpochsBegun == IF fpc = "begin" THEN 0
               ELSE IF fpc = "epoch_begin" THEN epoch ELSE epoch + 1
EpochsEnded == IF fpc \in {"begin", "epoch_begin"} THEN epoch
               ELSE IF fpc = "done" THEN epoch + 1 ELSE epoch

\* C5 as claimed: at most epochs = 100 epochs run; training never stops before
\* epoch 100 while fewer than patience = 10 consecutive epochs have passed
\* without an improvement of the validation accuracy; and no further epoch is
\* run once 10 such epochs have passed.
C5_StopsExactlyAtPatience ==
  /\ EpochsBegun <= epochs
  /\ (fpc = "done" /\ EpochsEnded < epochs) => hist_stale >= patience
  /\ fpc \in {"epoch_begin", "training"} => hist_stale < patience

\* C6 as claimed: every epoch that is begun gets exactly one learning rate,
\* one of the three listed, and the rate never increases from one epoch to
\* the next.
C6_OneRatePerEpoch ==
  /\ Len(lr_hist) = EpochsBegun
  /\ \A e \in 1..Len(lr_hist) : lr_hist[e] \in {LrHigh, LrMid, LrLow}
  /\ \A e \in 1..(Len(lr_hist) - 1) : lr_hist[e + 1] <= lr_hist[e]

\* ------------------------------------------------------------------------
\* Claims about the melting-point notebook (checked under SpecMelt)

KFitted == mpc \in {"fitted", "labelled", "clustered"}

\* C10: the fitted cluster model depends only on columns 0 and 1 of X_train:
\* two runs with the same X_train[:,[0,1]] that differ in X_test, y_train,
\* y_test or in the other columns of X_train have the same cluster model (and
\* so label the training rows alike).
C10_ClusterModelFromTrainFeaturesOnly ==
  (KFitted /\ Cols01(runs[1].X_train) = Cols01(runs[2].X_train)) =>
    /\ runs[1].kmeans = runs[2].kmeans
    /\ Len(runs[1].kmeans) = n_clusters
    /\ mpc \in {"labelled", "clustered"} =>
         runs[1].train_cluster_labels = runs[2].train_cluster_labels

\* the two runs differ in X_test and the model has been fitted on data that
\* falls into more than one cluster
C10_Witness ==
  /\ mpc = "labelled"
  /\ changed = "X_test"
  /\ runs[1].X_test # runs[2].X_test
  /\ \E a, b \in 1..NumTrain :
       runs[1].train_cluster_labels[a] # runs[1].train_cluster_labels[b]

\* the samples of cluster i, and the position of the k-th of them
CountWith(labels, i) == Cardinality({j \in 1..Len(labels) : labels[j] = i})
KthWith(labels, i, k) ==
  CHOOSE j \in 1..Len(labels) :
    labels[j] = i /\ Cardinality({h \in 1..j : labels[h] = i}) = k

\* entry k of the features and of the targets of cluster i both come from the
\* k-th sample with label i
Paired(X, y, labels, Xc, yc) ==
  \A i \in 0..(n_clusters - 1) :
    /\ Len(Xc[i]) = CountWith(labels, i)
    /\ Len(yc[i]) = CountWith(labels, i)
    /\ \A k \in 1..CountWith(labels, i) :
         /\ Xc[i][k] = X[KthWith(labels, i, k)]
         /\ yc[i][k] = y[KthWith(labels, i, k)]

\* ------------------------------------------------------------------------
\* C15  The per-cluster split keeps features and targets paired: for every
\*      cluster i, y_train_cluster[i][k] is the target of the same sample
\*      as X_train_cluster[i][k], the samples of a cluster keep their
\*      relative order, and likewise for the test arrays.
C15_FeaturesAndTargetsPaired ==
  mpc = "clustered" =>
    \A r \in 1..2 :
      /\ Paired(runs[r].X_train, runs[r].y_train, runs[r].train_cluster_labels,
                runs[r].X_train_cluster, runs[r].y_train_cluster)
      /\ Paired(runs[r].X_test, runs[r].y_test, runs[r].test_cluster_labels,
                runs[r].X_test_cluster, runs[r].y_test_cluster)

\* the split has run on data where a cluster holds two samples with
\* different features and different targets
C15_Witness ==
  /\ mpc = "clustered"
  /\ changed = "y_train"
  /\ \E i \in 0..(n_clusters - 1) :
       /\ Len(runs[2].y_train_cluster[i]) = 2
       /\ runs[2].y_train_cluster[i][1] # runs[2].y_train_cluster[i][2]
       /\ runs[2].X_train_cluster[i][1] # runs[2].X_train_cluster[i][2]

\* ------------------------------------------------------------------------
\* Claims about whole notebooks (checked under SpecCells)

\* the cell that saves the model is the last but one code cell of the CNN notebook
SaveCell    == Len(CnnCells) - 1
SaveCellRun == nb = "cnn" /\ next_cell > SaveCell

\* C4 as claimed: no cell of any notebook writes a file.
C4_NoCellWritesAFile == files = {}

\* C4 amended: the one cell that writes files is the cell of the CNN notebook
\* that saves the model. my_model.h5 is written exactly when that cell is run
\* with `model` bound; history.json only when `history` is bound as well; no
\* cell of any other notebook, and no other cell of the CNN notebook, writes
\* a file.
C4_OnlySaveCellWrites ==
  /\ files \subseteq {"my_model.h5", "history.json"}
  /\ files # {} => SaveCellRun
  /\ "my_model.h5" \in files <=> (SaveCellRun /\ "model" \in namespace)
  /\ "history.json" \in files <=> (SaveCellRun /\ {"model", "history"} \subseteq namespace)

\* the CNN notebook has been run to its last cell and has left my_model.h5
C4_Witness ==
  /\ nb = "cnn"
  /\ next_cell > Len(CnnCells)
  /\ files = {"my_model.h5"}

\* ------------------------------------------------------------------------
\* Claims about the cleaning cells of the gas notebook (checked under SpecClean)

HasMissing(row) == row.Polymer = NaN \/ row.SMILES = NaN \/ row.perm = NaN

\* C11 as claimed: after the cleaning cell, in each of the six gas datasets no
\* row has a missing element, no two rows have the same SMILES string, and
\* every row is a row of the dataset that was cleaned.
C11_CleanedDatasets ==
  clpc = "cleaned" =>
    \A g \in Gases :
      LET df == gas_data[g]
      IN  /\ \A k \in 1..Len(df) : ~HasMissing(df[k])
          /\ \A j, k \in 1..Len(df) : j # k => df[j].SMILES # df[k].SMILES
          /\ \A k \in 1..Len(df) :
               \E j \in 1..Len(data) : df[k] = GasColumns(data, g)[j]

\* ------------------------------------------------------------------------
\* Claims about the class weights of the CNN notebook (checked under SpecWeights)

\* C12 as claimed: once the weights cell has run, `weights` has exactly one
\* entry for each class index 0..7, the weight of class k is the total number
\* of data points divided by the data points of class k, and a class with
\* more data never has a larger weight than a class with less data.
C12_ClassWeights ==
  wpc = "weights" =>
    /\ DOMAIN weights = 0..(num_classes - 1)
    /\ \A k \in 0..(num_classes - 1) :
         weights[k].num * sizes[k + 1] = SumSeq(sizes) * weights[k].den
    /\ \A j, k \in 0..(num_classes - 1) :
         sizes[j + 1] > sizes[k + 1] =>
           weights[j].num * weights[k].den <= weights[k].num * weights[j].den

\* ------------------------------------------------------------------------
\* C16  Each notebook is linear: when its code cells are run once, top to
\*      bottom, every name a cell reads has been assigned by an earlier
\*      cell of the same notebook.  In a run of all cells with the data
\*      files present, the first cell that stops does not stop on an
\*      unassigned name.
C16_EveryNameAssignedEarlier ==
  (run_all /\ data_files) => error # "NameError"

\* ------------------------------------------------------------------------
\* C13  In the documented sequence (README, then the notebook) every step
\*      that requires the ml4ms-skl environment to be activated is reached
\*      only once that environment has been created: no step meets a
\*      missing environment.
C13_EnvCreatedBeforeUse ==
  plan = "README+notebook" => unmet = {}

\* ------------------------------------------------------------------------
\* C14  Following a document's steps in order puts into base only packages
\*      that the same document allows in base; every other package is
\*      installed with a non-base environment activated.
C14_BaseHoldsOnlyAllowed ==
  \A d \in Docs : base_installs[d] \subseteq AllowedInBase(d)


=============================================================================
